---- MODULE Spec2Model ----
(***************************************************************************)
(* Model of .dev-team/implementations/project.py: the documentation class  *)
(* CrumbleBakeryImplementation, its four accessors, and the driver main(). *)
(*                                                                         *)
(* Python values are tagged records: Str, Bool, Dict (an ordered mapping,  *)
(* a sequence of <<key, value>> pairs in insertion order), NoneVal, and    *)
(* Ref (the address of a dict object on the heap).  A dict display builds  *)
(* a new object on every evaluation, so every accessor call allocates.     *)
(* Standard output is the sequence of lines written so far.                *)
(*                                                                         *)
(* The module can be started in two ways: run as a script (main() is the   *)
(* caller of the accessors) or imported by a client that constructs the    *)
(* object, calls accessors in any order and may mutate what they return.   *)
(***************************************************************************)
EXTENDS Integers, Sequences, FiniteSets, TLC

\* ---- bounds of the exploration ----
MaxRuns == 4
MaxCalls == 3
MaxMutations == 1

VARIABLES pc, run, bakery, stdout, outputs, sec, cur, idx, heap, calls, muts

vars == <<pc, run, bakery, stdout, outputs, sec, cur, idx, heap, calls, muts>>

\* ---- Python values ----
Str(s) == [t |-> "str", s |-> s]
Bool(b) == [t |-> "bool", b |-> b]
Dict(es) == [t |-> "dict", v |-> es]
Ref(a) == [t |-> "ref", a |-> a]
NoneVal == [t |-> "none"]

\* U+2713 CHECK MARK, one code point; the module text is ASCII, so the
\* character is written as one ASCII character that occurs nowhere else
\* in the program's text.
CheckMark == "~"

\* ---- class CrumbleBakeryImplementation ----
\* Variant: the file count set to another number than the text reports.
__init__ThreeFiles ==
  [project_name |-> "Crumble Bakery",
   file_count |-> 3,
   max_lines_per_file |-> 100,
   tech_stack |-> <<"HTML5", "CSS3">>]

__init__ ==
  [project_name |-> "Crumble Bakery",
   file_count |-> 2,
   max_lines_per_file |-> 100,
   tech_stack |-> <<"HTML5", "CSS3">>]

get_architecture_compliance(self) ==
  Dict(<<
    <<"file_count", Str(CheckMark \o " Exactly 2 files (index.html, style.css)")>>,
    <<"line_limits", Str(CheckMark \o " Both files under 100 lines")>>,
    <<"no_javascript", Str(CheckMark \o " Pure HTML/CSS implementation")>>,
    <<"no_external_libs", Str(CheckMark \o " No Bootstrap, Tailwind, or external fonts")>>,
    <<"semantic_html", Str(CheckMark \o " Proper semantic tags used")>>,
    <<"mobile_first", Str(CheckMark \o " Mobile-first responsive design")>>,
    <<"form_submission", Str(CheckMark \o " Pure HTML form with POST method")>>
  >>)

\* Variant: the return statement is missing.
get_technical_features_NoReturn(self) == NoneVal

get_technical_features(self) ==
  Dict(<<
    <<"responsive_design", Dict(<<
        <<"approach", Str("Mobile-first with single @media breakpoint at 480px")>>,
        <<"layout", Str("Flexbox for vertical/horizontal centering")>> >>)>>,
    <<"color_scheme", Dict(<<
        <<"background", Str("#faf8f5 (warm cream)")>>,
        <<"primary_text", Str("#333333 (dark gray)")>>,
        <<"accent", Str("#8b4513 (saddle brown)")>> >>)>>,
    <<"typography", Dict(<<
        <<"font_stack", Str("system-ui, -apple-system, sans-serif")>>,
        <<"no_external_fonts", Bool(TRUE)>> >>)>>,
    <<"form_handling", Dict(<<
        <<"method", Str("POST")>>,
        <<"validation", Str("HTML5 required attribute")>>,
        <<"accessibility", Str("ARIA labels for screen readers")>> >>)>>
  >>)

\* Variant: the last entry is missing.
get_error_handling_Three(self) ==
  Dict(<<
    <<"css_fallbacks", Str("System font stack ensures text renders")>>,
    <<"form_validation", Str("HTML5 required attribute prevents empty submissions")>>,
    <<"accessibility", Str("ARIA labels and semantic HTML for screen readers")>>
  >>)

get_error_handling(self) ==
  Dict(<<
    <<"css_fallbacks", Str("System font stack ensures text renders")>>,
    <<"form_validation", Str("HTML5 required attribute prevents empty submissions")>>,
    <<"accessibility", Str("ARIA labels and semantic HTML for screen readers")>>,
    <<"graceful_degradation", Str("Works without CSS (semantic HTML structure)")>>
  >>)

\* Variant: the last entry is missing.
get_deployment_notes_Four(self) ==
  Dict(<<
    <<"hosting", Str("Can be hosted on any static web server")>>,
    <<"dependencies", Str("None - completely self-contained")>>,
    <<"browser_support", Str("All modern browsers (IE11+)")>>,
    <<"performance", Str("Minimal HTTP requests, no external resources")>>
  >>)

get_deployment_notes(self) ==
  Dict(<<
    <<"hosting", Str("Can be hosted on any static web server")>>,
    <<"dependencies", Str("None - completely self-contained")>>,
    <<"browser_support", Str("All modern browsers (IE11+)")>>,
    <<"performance", Str("Minimal HTTP requests, no external resources")>>,
    <<"seo_ready", Str("Semantic HTML with proper meta tags")>>
  >>)

Accessors ==
  {"get_architecture_compliance", "get_technical_features",
   "get_error_handling", "get_deployment_notes"}

\* Method dispatch: bakery.<name>()
CallMethod(name, self) ==
  CASE name = "get_architecture_compliance" -> get_architecture_compliance(self)
    [] name = "get_technical_features" -> get_technical_features(self)
    [] name = "get_error_handling" -> get_error_handling(self)
    [] name = "get_deployment_notes" -> get_deployment_notes(self)

\* ---- the heap: heap[a] is the entry sequence of the dict object at a ----
RECURSIVE Deref(_, _)
Load(h, v) == IF v.t = "ref" THEN Dict(Deref(h, v.a)) ELSE v
Deref(h, a) == [i \in 1..Len(h[a]) |-> <<h[a][i][1], Load(h, h[a][i][2])>>]

\* The objects reachable from the dict at address a.
Reach(h, a) ==
  {a} \cup {h[a][i][2].a : i \in {j \in 1..Len(h[a]) : h[a][j][2].t = "ref"}}

Rank(es, i) == Cardinality({j \in 1..i : es[j][2].t = "dict"})

\* Variant: the display is evaluated once and the same object is handed out
\* again by later calls.
NewDictShared(h, es) ==
  LET base == Len(h) + 1
      top == [i \in 1..Len(es) |->
                IF es[i][2].t = "dict"
                  THEN <<es[i][1], Ref(base + Rank(es, i))>>
                  ELSE es[i]]
      nestedIdx == SelectSeq([i \in 1..Len(es) |-> i],
                             LAMBDA i : es[i][2].t = "dict")
      nested == [n \in 1..Len(nestedIdx) |-> es[nestedIdx[n]][2].v]
      earlier == {i \in 1..Len(calls) : calls[i].snap = Dict(es)}
  IN IF earlier # {}
       THEN [heap |-> h, ref |-> calls[CHOOSE i \in earlier : TRUE].ret]
       ELSE [heap |-> (h \o <<top>>) \o nested, ref |-> Ref(base)]

\* Evaluation of a dict display whose values are scalars or dict displays
\* of scalars: one new object for the display and one per nested display.
NewDict(h, es) ==
  LET base == Len(h) + 1
      top == [i \in 1..Len(es) |->
                IF es[i][2].t = "dict"
                  THEN <<es[i][1], Ref(base + Rank(es, i))>>
                  ELSE es[i]]
      nestedIdx == SelectSeq([i \in 1..Len(es) |-> i],
                             LAMBDA i : es[i][2].t = "dict")
      nested == [n \in 1..Len(nestedIdx) |-> es[nestedIdx[n]][2].v]
  IN [heap |-> (h \o <<top>>) \o nested, ref |-> Ref(base)]

\* ---- text ----
RECURSIVE SplitLines(_)
SplitLines(s) ==
  IF \E i \in 1..Len(s) : SubSeq(s, i, i) = "\n"
    THEN LET i == CHOOSE k \in 1..Len(s) :
                    /\ SubSeq(s, k, k) = "\n"
                    /\ \A j \in 1..(k - 1) : SubSeq(s, j, j) # "\n"
         IN <<SubSeq(s, 1, i - 1)>> \o SplitLines(SubSeq(s, i + 1, Len(s)))
    ELSE <<s>>

\* print(s): s followed by a newline, i.e. the lines of s are appended.
print(out, s) == out \o SplitLines(s)

RECURSIVE repr(_), JoinItems(_, _)
repr(v) ==
  CASE v.t = "str" -> "'" \o v.s \o "'"
    [] v.t = "bool" -> (IF v.b THEN "True" ELSE "False")
    [] v.t = "none" -> "None"
    [] v.t = "dict" -> "{" \o JoinItems(v.v, 1) \o "}"
JoinItems(es, i) ==
  IF i > Len(es) THEN ""
  ELSE (("'" \o es[i][1] \o "': ") \o repr(es[i][2]))
         \o (IF i < Len(es) THEN ", " \o JoinItems(es, i + 1) ELSE "")

\* "{x}" in an f-string: str(x)
format(v) == IF v.t = "str" THEN v.s ELSE repr(v)

\* ---- main() ----
SectionAccessor ==
  <<"get_architecture_compliance", "get_technical_features",
    "get_error_handling", "get_deployment_notes">>

\* Variant: the second and third header exchanged.
SectionHeaderSwapped ==
  <<"\n1. Architecture Compliance:", "\n3. Error Handling:",
    "\n2. Technical Features:", "\n4. Deployment Notes:">>

SectionHeader ==
  <<"\n1. Architecture Compliance:", "\n2. Technical Features:",
    "\n3. Error Handling:", "\n4. Deployment Notes:">>

Banner(self) == ("=== " \o self.project_name) \o " Implementation Documentation ==="

\* Variant: every loop prints the value alone.
EntryLineNoKey(s, k, v) == "   " \o format(v)

\* The line printed by the loop body of section s for the item (k, v).
EntryLine(s, k, v) ==
  IF s = 1 THEN "   " \o format(v)
  ELSE (("   " \o k) \o ": ") \o format(v)

Init ==
  /\ pc \in {"start", "import"}
  /\ run = 1
  /\ bakery = NoneVal
  /\ stdout = <<>>
  /\ outputs = <<>>
  /\ sec = 0
  /\ cur = NoneVal
  /\ idx = 0
  /\ heap = <<>>
  /\ calls = <<>>
  /\ muts = <<>>

\* bakery = CrumbleBakeryImplementation()
Construct ==
  /\ pc \in {"start", "import"}
  /\ bakery' = __init__
  /\ pc' = IF pc = "start" THEN "banner" ELSE "client"
  /\ UNCHANGED <<run, stdout, outputs, sec, cur, idx, heap, calls, muts>>

\* Variant: the banner carries a count of the calls of main().
PrintBannerNumbered ==
  /\ pc = "banner"
  /\ stdout' = print(stdout, Banner(bakery) \o ToString(run))
  /\ sec' = 1
  /\ pc' = "header"
  /\ UNCHANGED <<run, bakery, outputs, cur, idx, heap, calls, muts>>

PrintBanner ==
  /\ pc = "banner"
  /\ stdout' = print(stdout, Banner(bakery))
  /\ sec' = 1
  /\ pc' = "header"
  /\ UNCHANGED <<run, bakery, outputs, cur, idx, heap, calls, muts>>

PrintHeader ==
  /\ pc = "header"
  /\ stdout' = print(stdout, SectionHeader[sec])
  /\ pc' = "call"
  /\ UNCHANGED <<run, bakery, outputs, sec, cur, idx, heap, calls, muts>>

\* Variant: the accessor records the number of earlier calls in the mapping.
InvokeCounting(name) ==
  LET r == CallMethod(name, bakery)
      es == Append(r.v, <<"calls", Str(ToString(Len(calls)))>>)
      n == NewDict(heap, es)
  IN /\ heap' = n.heap
     /\ cur' = n.ref
     /\ calls' = Append(calls, [acc |-> name, ret |-> n.ref,
                                snap |-> Load(n.heap, n.ref)])
     /\ UNCHANGED <<bakery, stdout>>

\* Variant: the accessor appends to a field of the object.
InvokeStoring(name) ==
  LET r == CallMethod(name, bakery)
      n == NewDict(heap, r.v)
  IN /\ heap' = n.heap
     /\ cur' = n.ref
     /\ calls' = Append(calls, [acc |-> name, ret |-> n.ref,
                                snap |-> Load(n.heap, n.ref)])
     /\ bakery' = [bakery EXCEPT !.tech_stack = Append(@, name)]
     /\ UNCHANGED stdout

\* bakery.<name>(): the body is a single return of a dict display.  cur is
\* the value handed to the caller; calls logs the call with the contents of
\* the returned mapping at the time of the return.
Invoke(name) ==
  LET r == CallMethod(name, bakery)
      n == IF r.t = "dict" THEN NewDict(heap, r.v) ELSE [heap |-> heap, ref |-> r]
  IN /\ heap' = n.heap
     /\ cur' = n.ref
     /\ calls' = Append(calls, [acc |-> name, ret |-> n.ref,
                                snap |-> Load(n.heap, n.ref)])
     /\ UNCHANGED <<bakery, stdout>>

\* <mapping>.items() raises AttributeError on a value that is not a dict.
MainCall ==
  /\ pc = "call"
  /\ Invoke(SectionAccessor[sec])
  /\ idx' = 1
  /\ pc' = IF cur'.t = "ref" THEN "loop" ELSE "error"
  /\ UNCHANGED <<run, outputs, sec, muts>>

PrintEntry ==
  /\ pc = "loop"
  /\ idx <= Len(heap[cur.a])
  /\ LET item == heap[cur.a][idx]
     IN stdout' = print(stdout, EntryLine(sec, item[1], Load(heap, item[2])))
  /\ idx' = idx + 1
  /\ UNCHANGED <<pc, run, bakery, outputs, sec, cur, heap, calls, muts>>

\* The for loop is exhausted: on to the next section, or main() returns.
EndLoop ==
  /\ pc = "loop"
  /\ idx > Len(heap[cur.a])
  /\ IF sec < Len(SectionAccessor)
       THEN /\ sec' = sec + 1
            /\ pc' = "header"
       ELSE /\ sec' = sec
            /\ pc' = "exit"
  /\ UNCHANGED <<run, bakery, stdout, outputs, cur, idx, heap, calls, muts>>

\* main() is entered again: the locals of the finished call are gone, the
\* output of the finished call is kept for comparison.
MainAgain ==
  /\ pc = "exit"
  /\ run < MaxRuns
  /\ run' = run + 1
  /\ outputs' = Append(outputs, stdout)
  /\ stdout' = <<>>
  /\ bakery' = NoneVal
  /\ cur' = NoneVal
  /\ heap' = <<>>
  /\ calls' = <<>>
  /\ sec' = 0
  /\ idx' = 0
  /\ pc' = "start"
  /\ UNCHANGED muts

\* ---- a client of the imported class ----
ClientCall ==
  /\ pc = "client"
  /\ Len(calls) < MaxCalls
  /\ \E name \in Accessors : Invoke(name)
  /\ UNCHANGED <<pc, run, outputs, sec, idx, muts>>

MutationOps == {"add", "del", "set"}

\* d["extra"] = "x";  del d[first key];  d[first key] = "x"
Mutate(es, op) ==
  CASE op = "add" ->
         IF \E i \in 1..Len(es) : es[i][1] = "extra"
           THEN [i \in 1..Len(es) |->
                   IF es[i][1] = "extra" THEN <<"extra", Str("x")>> ELSE es[i]]
           ELSE Append(es, <<"extra", Str("x")>>)
    [] op = "del" -> Tail(es)
    [] op = "set" -> [es EXCEPT ![1] = <<es[1][1], Str("x")>>]

ClientMutate ==
  /\ pc = "client"
  /\ Len(muts) < MaxMutations
  /\ \E a \in 1..Len(heap), op \in MutationOps :
       /\ op \in {"del", "set"} => Len(heap[a]) > 0
       /\ heap' = [heap EXCEPT ![a] = Mutate(heap[a], op)]
       /\ muts' = Append(muts, [obj |-> a, op |-> op, at |-> Len(calls)])
  /\ UNCHANGED <<pc, run, bakery, stdout, outputs, sec, cur, idx, calls>>

Main == PrintBanner \/ PrintHeader \/ MainCall \/ PrintEntry \/ EndLoop

Next ==
  \/ Construct
  \/ PrintBanner
  \/ PrintHeader
  \/ MainCall
  \/ PrintEntry
  \/ EndLoop
  \/ MainAgain
  \/ ClientCall
  \/ ClientMutate

Spec == Init /\ [][Next]_vars

\* main() is straight-line sequential code: each of its steps is taken.
FairSpec == Spec /\ WF_vars(Construct) /\ WF_vars(Main)


\* ======================= properties =======================
KeySet(m) == {m.v[i][1] : i \in 1..Len(m.v)}
ValueOf(m, k) == m.v[CHOOSE i \in 1..Len(m.v) : m.v[i][1] = k][2]
Contains(a, b) == \E i \in 1..(Len(a) - Len(b) + 1) : SubSeq(a, i, i + Len(b) - 1) = b
EndsWith(a, b) == Len(a) >= Len(b) /\ SubSeq(a, Len(a) - Len(b) + 1, Len(a)) = b
CallsOf(name) == {i \in 1..Len(calls) : calls[i].acc = name}
FirstCall(name) == CHOOSE i \in CallsOf(name) : \A j \in CallsOf(name) : i <= j
InMain == pc \in {"banner", "header", "call", "loop", "exit", "error"}

\* C1 as stated: every mapping returned by get_deployment_notes() has
\* exactly 4 entries.
C1_DeploymentNotesHasFour ==
  \A i \in CallsOf("get_deployment_notes") : Len(calls[i].snap.v) = 4

\* C1 amended: every mapping returned by get_deployment_notes() has exactly
\* 5 entries (hosting, dependencies, browser_support, performance,
\* seo_ready), on every call.
C1_DeploymentNotesHasFive ==
  \A i \in CallsOf("get_deployment_notes") :
    /\ Len(calls[i].snap.v) = 5
    /\ Cardinality(KeySet(calls[i].snap)) = 5

C1_Witness == Cardinality(CallsOf("get_deployment_notes")) >= 2

\* C4: every mapping returned by get_architecture_compliance() has exactly 7
\* entries, by get_error_handling() exactly 4, and by
\* get_technical_features() exactly 4 top-level entries.
C4_EntryCounts ==
  /\ \A i \in CallsOf("get_architecture_compliance") :
       Len(calls[i].snap.v) = 7 /\ Cardinality(KeySet(calls[i].snap)) = 7
  /\ \A i \in CallsOf("get_error_handling") :
       Len(calls[i].snap.v) = 4 /\ Cardinality(KeySet(calls[i].snap)) = 4
  /\ \A i \in CallsOf("get_technical_features") :
       Len(calls[i].snap.v) = 4 /\ Cardinality(KeySet(calls[i].snap)) = 4

C4_Witness ==
  /\ CallsOf("get_architecture_compliance") # {}
  /\ CallsOf("get_error_handling") # {}
  /\ CallsOf("get_technical_features") # {}


\* C5: the mapping returned by any call of an accessor has the same key set
\* and, key by key, the same values as the mapping returned by the first
\* call of that accessor on the same object, whatever calls came between.
C5_Idempotent ==
  \A j \in 1..Len(calls) :
    LET f == FirstCall(calls[j].acc)
    IN /\ KeySet(calls[j].snap) = KeySet(calls[f].snap)
       /\ \A k \in KeySet(calls[f].snap) :
            ValueOf(calls[j].snap, k) = ValueOf(calls[f].snap, k)

\* The same accessor called again after a call of another accessor.
C5_Witness ==
  /\ pc = "client"
  /\ muts = <<>>
  /\ Len(calls) >= 3
  /\ calls[1].acc = calls[3].acc
  /\ calls[2].acc # calls[1].acc

\* C6: when a call of main() has returned, the lines it wrote are the same
\* sequence as the lines written by every earlier call of main().
C6_SameOutput ==
  pc = "exit" => \A r \in 1..Len(outputs) : outputs[r] = stdout

C6_Witness == pc = "exit" /\ Len(outputs) >= 1 /\ Len(stdout) > 0

\* C7: a step that is an accessor call leaves the object's fields at the
\* values set at construction and writes nothing to standard output; with
\* no main() running, standard output stays empty.
C7_AccessorFrame ==
  /\ [](pc \in {"import", "client"} => stdout = <<>>)
  /\ [][Len(calls') > Len(calls) =>
          /\ stdout' = stdout
          /\ bakery' = bakery
          /\ bakery'.project_name = "Crumble Bakery"
          /\ bakery'.file_count = 2
          /\ bakery'.max_lines_per_file = 100
          /\ bakery'.tech_stack = <<"HTML5", "CSS3">>]_vars

C7_Witness == pc = "client" /\ Len(calls) = MaxCalls /\ stdout = <<>>

\* C8: every mapping returned by get_architecture_compliance() has the key
\* "file_count", its value contains the text "2", and that is the decimal
\* text of the object's file_count field, which is 2.
C8_FileCount ==
  /\ bakery # NoneVal => bakery.file_count = 2
  /\ \A i \in CallsOf("get_architecture_compliance") :
       /\ "file_count" \in KeySet(calls[i].snap)
       /\ ValueOf(calls[i].snap, "file_count").t = "str"
       /\ Contains(ValueOf(calls[i].snap, "file_count").s, "2")
       /\ Contains(ValueOf(calls[i].snap, "file_count").s,
                   " " \o ToString(bakery.file_count) \o " ")

C8_Witness ==
  /\ CallsOf("get_architecture_compliance") # {}
  /\ bakery # NoneVal

\* C9: no step of main() reaches the error state, every call of main()
\* that starts reaches the exit state, and at the exit state the accessors
\* called are the four accessors, once each, in the order compliance,
\* technical features, error handling, deployment notes.
C9_Terminates ==
  /\ [](pc # "error")
  /\ (pc = "start") ~> (pc = "exit")
  /\ [](pc = "exit" =>
          [i \in 1..Len(calls) |-> calls[i].acc] = SectionAccessor)

C9_Witness == pc = "exit" /\ Len(calls) = 4 /\ bakery # NoneVal

\* C10: whatever a caller did to mappings returned earlier, every call of
\* an accessor returns the same contents, in the same order, as its first
\* call; the objects of two returned mappings are disjoint; and a mapping
\* no mutation was applied to still has the contents it was returned with.
Touched(i) == \E m \in 1..Len(muts) : muts[m].obj \in Reach(heap, calls[i].ret.a)
C10_Fresh ==
  /\ \A j \in 1..Len(calls) : calls[j].snap = calls[FirstCall(calls[j].acc)].snap
  /\ \A i, j \in 1..Len(calls) :
       i # j => Reach(heap, calls[i].ret.a) \cap Reach(heap, calls[j].ret.a) = {}
  /\ \A i \in 1..Len(calls) :
       ~Touched(i) => Load(heap, calls[i].ret) = calls[i].snap

\* A nested mapping of an earlier get_technical_features() result was
\* mutated before a later get_technical_features() call.
C10_Witness ==
  \E i, j \in CallsOf("get_technical_features") :
    /\ i < j
    /\ \E m \in 1..Len(muts) :
         /\ muts[m].obj \in Reach(heap, calls[i].ret.a) \ {calls[i].ret.a}
         /\ muts[m].at >= i
         /\ muts[m].at < j


\* ---- the sections of the output, as the specification names them ----
SectionTitle ==
  <<"Architecture Compliance:", "Technical Features:",
    "Error Handling:", "Deployment Notes:">>
IsHeaderOf(line, s) == EndsWith(line, SectionTitle[s])
IsHeader(line) == \E s \in 1..4 : IsHeaderOf(line, s)
HeaderAt(s) == {p \in 1..Len(stdout) : IsHeaderOf(stdout[p], s)}
HeaderPos(s) == CHOOSE p \in HeaderAt(s) : TRUE
\* The non-empty lines after the header of section s, up to the next header.
SectionLines(s) ==
  LET last == IF s < 4 /\ HeaderAt(s + 1) # {} THEN HeaderPos(s + 1) - 1
              ELSE Len(stdout)
  IN SelectSeq(SubSeq(stdout, HeaderPos(s) + 1, last), LAMBDA l : l # "")
RECURSIVE LStrip(_)
LStrip(l) ==
  IF Len(l) > 0 /\ SubSeq(l, 1, 1) = " " THEN LStrip(SubSeq(l, 2, Len(l))) ELSE l
\* The mapping main() iterated in section s (the s-th accessor call).
SectionMap(s) == calls[s].snap.v

\* C2 as stated: when main() has returned, the lines of each of the four
\* sections are, entry by entry and in insertion order, "key: value"
\* (leading indentation aside).
C2_KeyValueEverySection ==
  pc = "exit" =>
    \A s \in 1..4 :
      /\ Len(SectionLines(s)) = Len(SectionMap(s))
      /\ \A i \in 1..Len(SectionMap(s)) :
           LStrip(SectionLines(s)[i]) =
             (SectionMap(s)[i][1] \o ": ") \o format(SectionMap(s)[i][2])

\* C2 amended: when main() has returned, the lines of the Technical
\* Features, Error Handling and Deployment Notes sections are, entry by
\* entry and in insertion order, three spaces and "key: value"; the lines
\* of the Architecture Compliance section are, entry by entry and in
\* insertion order, three spaces and the value alone, without the key.
C2_KeyValueExceptCompliance ==
  pc = "exit" =>
    \A s \in 1..4 :
      /\ Len(SectionLines(s)) = Len(SectionMap(s))
      /\ \A i \in 1..Len(SectionMap(s)) :
           SectionLines(s)[i] =
             IF s = 1
               THEN "   " \o format(SectionMap(s)[i][2])
               ELSE (("   " \o SectionMap(s)[i][1]) \o ": ")
                      \o format(SectionMap(s)[i][2])

C2_Witness ==
  /\ pc = "exit"
  /\ \A s \in 1..4 : HeaderAt(s) # {} /\ Len(SectionLines(s)) >= 4

\* C3: at every point of a run of main() the headers written so far are
\* those of sections 1..n in that order, each once, with n = 4 when main()
\* has returned; and every line written for an entry of a section lies
\* after that section's header and before the next section's header.
C3_HeaderOrder ==
  InMain =>
    /\ \A s \in 1..4 : Cardinality(HeaderAt(s)) <= 1
    /\ \A s \in 2..4 : HeaderAt(s) # {} => HeaderAt(s - 1) # {}
    /\ \A s, u \in 1..4 :
         (s < u /\ HeaderAt(s) # {} /\ HeaderAt(u) # {}) => HeaderPos(s) < HeaderPos(u)
    /\ pc = "exit" =>
         /\ \A s \in 1..4 : Cardinality(HeaderAt(s)) = 1
         /\ Cardinality({p \in 1..Len(stdout) : IsHeader(stdout[p])}) = 4
         /\ \A s \in 1..4 : \A i \in 1..Len(SectionMap(s)) :
              \E p \in 1..Len(stdout) :
                Contains(stdout[p], format(SectionMap(s)[i][2]))
    /\ \A s \in 1..Len(calls) : \A i \in 1..Len(SectionMap(s)) :
         \A p \in 1..Len(stdout) :
           (~IsHeader(stdout[p]) /\ Contains(stdout[p], format(SectionMap(s)[i][2]))) =>
             /\ HeaderAt(s) # {}
             /\ HeaderPos(s) < p
             /\ (s < 4 /\ HeaderAt(s + 1) # {}) => p < HeaderPos(s + 1)

C3_Witness ==
  /\ pc = "exit"
  /\ \A s \in 1..4 : HeaderAt(s) # {}
  /\ Len(stdout) > HeaderPos(4)

====
